---- MODULE Spec2Model ----
(***************************************************************************)
(* Model of backend/fetch_ai_service.py: the FetchAiVocalCoach service.    *)
(*                                                                         *)
(* Representation of Python values:                                        *)
(*   - a float or an int is an exact rational <<num, den>>, den > 0, in    *)
(*     lowest terms (floating-point rounding is not modelled);             *)
(*   - None is the empty tuple <<>>;                                       *)
(*   - a str that the code indexes (a note name) is a tuple of one         *)
(*     character strings, "C#4" is <<"C", "#", "4">>;                      *)
(*   - a call that can raise returns [raises |-> name, value |-> v],       *)
(*     raises = "" meaning a normal return of v;                           *)
(*   - a frequency is an integer number of micro-hertz.                    *)
(***************************************************************************)
EXTENDS Integers, Sequences, FiniteSets, TLC

VARIABLES
    supabase,    \* self.supabase is a client (TRUE) or None (FALSE)
    use_ai,      \* self.use_ai
    hashOrder,   \* iteration order of a Python set of str in this interpreter run
    args,        \* args[p]: the (user_id, date) of call p of generate_daily_report
    pc,          \* pc[p]: position of call p, "idle" when the call is not made
    frame,       \* local variables of the calls' frames
    report,      \* report[p]: the FetchAiReport call p returned, <<>> before
    raised,      \* raised[p]: exception call p let escape to its caller, "" if none
    trace,       \* trace[p]: the collaborator and helper calls call p has made
    got,         \* got[p]: the collaborator responses call p has received
    alone,       \* alone[p]: where call p stands when run by itself on got[p]
    input,       \* argument of the pure function under check
    output       \* its result, <<>> before it is applied

vars == <<supabase, use_ai, hashOrder, args, pc, frame, report, raised, trace, got,
          alone, input, output>>

None == <<>>

Returns(v) == [raises |-> "", value |-> v]

Raises(e) == [raises |-> e, value |-> None]

(***************************************************************************)
(* Exact rational arithmetic standing for Python float arithmetic.         *)
(***************************************************************************)
Abs(n) == IF n < 0 THEN -n ELSE n

RECURSIVE GCD(_, _)
GCD(a, b) == IF b = 0 THEN a ELSE GCD(b, a % b)

Rat(n, d) ==
    LET g == GCD(Abs(n), Abs(d))
        s == IF d < 0 THEN -1 ELSE 1
    IN  <<(s * n) \div g, (s * d) \div g>>

RatOf(n) == <<n, 1>>

\* Sums and products are formed over reduced terms, to keep the numerators
\* and denominators small.
RatAdd(x, y) ==
    LET g == GCD(x[2], y[2])
    IN  Rat(x[1] * (y[2] \div g) + y[1] * (x[2] \div g), (x[2] \div g) * y[2])

RatSub(x, y) == RatAdd(x, <<-y[1], y[2]>>)

RatMul(x, y) ==
    LET g1 == GCD(Abs(x[1]), y[2])
        g2 == GCD(Abs(y[1]), x[2])
    IN  Rat((x[1] \div g1) * (y[1] \div g2), (x[2] \div g2) * (y[2] \div g1))

RatDiv(x, y) == RatMul(x, IF y[1] < 0 THEN <<-y[2], -y[1]>> ELSE <<y[2], y[1]>>)

RatAbs(x) == <<Abs(x[1]), x[2]>>

RatLt(x, y) == x[1] * y[2] < y[1] * x[2]

IsNumber(x) == Len(x) = 2

(***************************************************************************)
(* _note_to_frequency (lines 417-431).                                     *)
(***************************************************************************)
note_names ==
    << <<"C">>, <<"C", "#">>, <<"D">>, <<"D", "#">>, <<"E">>, <<"F">>,
       <<"F", "#">>, <<"G">>, <<"G", "#">>, <<"A">>, <<"A", "#">>, <<"B">> >>

\* int(c) for a one character string c: ValueError unless c is a digit.
DigitChars == <<"0", "1", "2", "3", "4", "5", "6", "7", "8", "9">>

IntOfChar(c) ==
    IF \E i \in 1..Len(DigitChars) : DigitChars[i] = c
    THEN Returns((CHOOSE i \in 1..Len(DigitChars) : DigitChars[i] = c) - 1)
    ELSE Raises("ValueError")

\* 440 * 2 ** ((note_index - 9) / 12 - 4) in micro-hertz, for note_index 0..11:
\* the equal-tempered pitches of octave 0 (A0 = 27.5 Hz).
OctaveZeroMicroHz ==
    <<16351598, 17323914, 18354048, 19445436, 20601722, 21826764,
      23124651, 24499715, 25956544, 27500000, 29135235, 30867706>>

RECURSIVE Pow2(_)
Pow2(n) == IF n = 0 THEN 1 ELSE 2 * Pow2(n - 1)

\* list.index: 0-based position of the first element equal to x.
IndexOf(seq, x) == (CHOOSE i \in 1..Len(seq) : seq[i] = x /\ \A j \in 1..(i - 1) : seq[j] # x) - 1

_note_to_frequency(note) ==
    IF Len(note) < 2 THEN Returns(0)
    ELSE LET note_name == SubSeq(note, 1, Len(note) - 1)
             octave    == IntOfChar(note[Len(note)])
         IN  IF octave.raises # "" THEN Raises(octave.raises)
             ELSE IF ~(\E i \in 1..Len(note_names) : note_names[i] = note_name)
             THEN Returns(0)
             ELSE Returns(OctaveZeroMicroHz[IndexOf(note_names, note_name) + 1]
                          * Pow2(octave.value))

(***************************************************************************)
(* _calculate_improvement (lines 293-301).                                 *)
(***************************************************************************)
STABLE == "baseline"
UP == "up"
DOWN == "down"

CalculateImprovementNoBand(current, previous) ==
    IF previous = RatOf(0) THEN <<RatOf(0), STABLE>>
    ELSE LET change_pct == RatMul(RatDiv(RatSub(current, previous), previous), RatOf(100))
         IN  IF change_pct = RatOf(0) THEN <<change_pct, STABLE>>
             ELSE <<change_pct, IF RatLt(RatOf(0), change_pct) THEN UP ELSE DOWN>>

_calculate_improvement(current, previous) ==
    IF previous = RatOf(0) THEN <<RatOf(0), STABLE>>
    ELSE LET change_pct == RatMul(RatDiv(RatSub(current, previous), previous), RatOf(100))
         IN  IF RatLt(RatAbs(change_pct), RatOf(1)) THEN <<change_pct, STABLE>>
             ELSE <<change_pct, IF RatLt(RatOf(0), change_pct) THEN UP ELSE DOWN>>

(***************************************************************************)
(* Python built-ins used by the aggregation.                               *)
(***************************************************************************)
Range(seq) == {seq[i] : i \in 1..Len(seq)}

Count(seq, x) == Cardinality({i \in 1..Len(seq) : seq[i] = x})

\* Iterating set(values): the distinct values, in the interpreter's hash order.
SetIteration(values) ==
    LET present(x) == x \in Range(values) IN SelectSeq(hashOrder, present)

\* max(iterable, key=...) and min(iterable, key=...) over integer keys: the
\* first element, in iteration order, whose key no other element beats.
FirstMaxIndex(keys) ==
    CHOOSE i \in 1..Len(keys) :
        /\ \A j \in 1..Len(keys) : keys[j] <= keys[i]
        /\ \A j \in 1..(i - 1) : keys[j] < keys[i]

FirstMinIndex(keys) ==
    CHOOSE i \in 1..Len(keys) :
        /\ \A j \in 1..Len(keys) : keys[i] <= keys[j]
        /\ \A j \in 1..(i - 1) : keys[i] < keys[j]

RECURSIVE RatSum(_)
RatSum(seq) == IF seq = <<>> THEN RatOf(0) ELSE RatAdd(seq[1], RatSum(Tail(seq)))

\* statistics.mean: TypeError when a value is not a number (None).
Mean(values) ==
    IF \E i \in 1..Len(values) : ~IsNumber(values[i]) THEN Raises("TypeError")
    ELSE Returns(RatDiv(RatSum(values), RatOf(Len(values))))

\* statistics.stdev, the square root of the sample variance, kept as the
\* symbolic value <<"sqrt", variance>>.
Stdev(values) ==
    LET m   == Mean(values).value
        sq  == [i \in 1..Len(values) |-> RatMul(RatSub(values[i], m), RatSub(values[i], m))]
    IN  <<"sqrt", RatDiv(RatSum(sq), RatOf(Len(values) - 1))>>

\* datetime.strftime("%Y-%m-%d") of a timestamp in minutes, and strptime of
\* such a string: a date string is <<"date", day>>, any other text <<"text", 0>>.
MinutesPerDay == 1440

Strftime(timestamp) == <<"date", timestamp \div MinutesPerDay>>

Strptime(date) == IF date[1] = "date" THEN Returns(date[2]) ELSE Raises("ValueError")

(***************************************************************************)
(* _aggregate_daily_metrics (lines 253-291).                               *)
(***************************************************************************)
Field(sessions, f) == [i \in 1..Len(sessions) |-> sessions[i][f]]

ModeLastOfTies(values) ==
    LET order == SetIteration(values)
        keys  == [i \in 1..Len(order) |-> Count(values, order[i])]
    IN  order[CHOOSE i \in 1..Len(keys) :
                  /\ \A j \in 1..Len(keys) : keys[j] <= keys[i]
                  /\ \A j \in (i + 1)..Len(keys) : keys[j] < keys[i]]

\* max(set(values), key=lambda x: sum(1 for s in sessions if s.field == x))
Mode(values) ==
    LET order == SetIteration(values)
        keys  == [i \in 1..Len(order) |-> Count(values, order[i])]
    IN  order[FirstMaxIndex(keys)]

_aggregate_daily_metrics(sessions) ==
    IF sessions = <<>> THEN Returns(None)
    ELSE
    LET mean_pitches  == Field(sessions, "mean_pitch")
        vibrato_rates == Field(sessions, "vibrato_rate")
        jitters       == Field(sessions, "jitter")
        shimmers      == Field(sessions, "shimmer")
        dynamics      == Mode(Field(sessions, "dynamics"))
        voice_type    == Mode(Field(sessions, "voice_type"))
        low_freqs     == [i \in 1..Len(sessions) |-> _note_to_frequency(sessions[i].lowest_note)]
        high_freqs    == [i \in 1..Len(sessions) |-> _note_to_frequency(sessions[i].highest_note)]
        timestamps    == Range(Field(sessions, "timestamp"))
        latest        == CHOOSE t \in timestamps : \A u \in timestamps : u <= t
        earliest      == CHOOSE t \in timestamps : \A u \in timestamps : t <= u
        means         == <<Mean(mean_pitches), Mean(vibrato_rates), Mean(jitters), Mean(shimmers)>>
    IN  IF \E i \in 1..Len(sessions) : low_freqs[i].raises # ""
        THEN Raises(low_freqs[CHOOSE i \in 1..Len(sessions) : low_freqs[i].raises # ""].raises)
        ELSE IF \E i \in 1..Len(sessions) : high_freqs[i].raises # ""
        THEN Raises(high_freqs[CHOOSE i \in 1..Len(sessions) : high_freqs[i].raises # ""].raises)
        ELSE IF \E k \in 1..4 : means[k].raises # ""
        THEN Raises("TypeError")
        ELSE Returns(
            [date                 |-> Strftime(sessions[1].timestamp),
             session_count        |-> Len(sessions),
             mean_pitch_avg       |-> means[1].value,
             vibrato_rate_avg     |-> means[2].value,
             jitter_avg           |-> means[3].value,
             shimmer_avg          |-> means[4].value,
             dynamics_mode        |-> dynamics,
             voice_type_mode      |-> voice_type,
             lowest_note          |-> sessions[FirstMinIndex(
                                          [i \in 1..Len(sessions) |-> low_freqs[i].value])].lowest_note,
             highest_note         |-> sessions[FirstMaxIndex(
                                          [i \in 1..Len(sessions) |-> high_freqs[i].value])].highest_note,
             pitch_stability      |-> IF Len(mean_pitches) > 1 THEN Stdev(mean_pitches)
                                      ELSE <<"sqrt", RatOf(0)>>,
             practice_consistency |-> Rat(latest - earliest, 60)])

(***************************************************************************)
(* The session store and _get_daily_sessions (lines 194-251).              *)
(* A store response is [error, data]: error # "" when execute() raised,    *)
(* data the rows of response.data. A row is a dict: a function whose       *)
(* domain is the set of keys the row has.                                  *)
(***************************************************************************)
Get(dict, key, default) == IF key \in DOMAIN dict THEN dict[key] ELSE default

\* datetime.now() when the mock sessions are built, in minutes.
Now == 15000

MockSessions ==
    << [timestamp |-> Now, mean_pitch |-> Rat(2205, 10), vibrato_rate |-> Rat(58, 10),
        jitter |-> Rat(12, 1000), shimmer |-> Rat(17, 1000), dynamics |-> "stable",
        voice_type |-> "tenor", lowest_note |-> <<"C", "3">>, highest_note |-> <<"A", "4">>],
       [timestamp |-> Now - 120, mean_pitch |-> Rat(2251, 10), vibrato_rate |-> Rat(62, 10),
        jitter |-> Rat(11, 1000), shimmer |-> Rat(16, 1000), dynamics |-> "stable",
        voice_type |-> "tenor", lowest_note |-> <<"D", "3">>, highest_note |-> <<"B", "4">>] >>

\* datetime.fromisoformat(created_at.replace('Z', '+00:00')): a well-formed
\* ISO string is <<"iso", minutes>>, any other text <<"text", 0>>.
FromIsoFormat(created_at) ==
    IF created_at[1] = "iso" THEN Returns(created_at[2]) ELSE Raises("ValueError")

SessionOfRow(session) ==
    IF "created_at" \notin DOMAIN session THEN Raises("KeyError")
    ELSE LET timestamp == FromIsoFormat(session["created_at"])
         IN  IF timestamp.raises # "" THEN timestamp
             ELSE Returns(
                 [timestamp    |-> timestamp.value,
                  mean_pitch   |-> Get(session, "mean_pitch", RatOf(0)),
                  vibrato_rate |-> Get(session, "vibrato_rate", RatOf(0)),
                  jitter       |-> Get(session, "jitter", RatOf(0)),
                  shimmer      |-> Get(session, "shimmer", RatOf(0)),
                  dynamics     |-> Get(session, "dynamics", "stable"),
                  voice_type   |-> Get(session, "voice_type", "unknown"),
                  lowest_note  |-> Get(session, "lowest_note", <<"C", "3">>),
                  highest_note |-> Get(session, "highest_note", <<"C", "5">>)])

_get_daily_sessions(user_id, date, response) ==
    IF ~supabase THEN MockSessions
    ELSE IF response.error # "" THEN <<>>
    ELSE IF response.data = <<>> THEN <<>>
    ELSE IF \E i \in 1..Len(response.data) : SessionOfRow(response.data[i]).raises # ""
    THEN <<>>
    ELSE [i \in 1..Len(response.data) |-> SessionOfRow(response.data[i]).value]

(***************************************************************************)
(* The text generator and _get_ai_insights (lines 102-192).                *)
(* A response is [error, status_code, body]: error # "" when requests.post *)
(* raised (timeout, transport error). body is [is_json, has_content,       *)
(* content]: whether response.json() parses, whether                       *)
(* result["choices"][0]["message"]["content"] exists, and that content.    *)
(* A content string is [lines, json]: its lines (content.split('\n')) and  *)
(* what json.loads makes of it: [kind |-> "invalid"] (JSONDecodeError),    *)
(* [kind |-> "array"] (a value that is no dict) or                         *)
(* [kind |-> "object", object |-> the dict].                               *)
(* A line is [text, found]: found is the set of the keywords that occur in *)
(* text.lower().                                                           *)
(***************************************************************************)
MockInsights ==
    << <<"Your pitch stability has improved by 15% this week!",
         "Consider practicing in the morning for better vocal clarity.",
         "Your vibrato rate is within optimal range for your voice type.">>,
       <<"Try vocal warm-ups before each practice session.",
         "Focus on breath control exercises for better dynamics.",
         "Practice scales in your comfortable range daily.">> >>

_get_fallback_insights ==
    << <<"Your vocal practice shows consistent improvement patterns.",
         "Maintaining regular practice sessions will enhance your progress.",
         "Your pitch accuracy is developing well with continued practice.">>,
       <<"Continue with daily vocal warm-ups for 10-15 minutes.",
         "Practice breathing exercises to improve vocal control.",
         "Record yourself regularly to track your progress.">> >>

\* seq[:n]
Prefix(seq, n) == SubSeq(seq, 1, IF Len(seq) < n THEN Len(seq) ELSE n)

Texts(lines) == [i \in 1..Len(lines) |-> lines[i].text]

GetAiInsightsNoStatusCheck(response) ==
    IF ~use_ai THEN MockInsights
    ELSE IF response.error # "" THEN _get_fallback_insights
    ELSE IF ~response.body.is_json \/ ~response.body.has_content THEN _get_fallback_insights
    ELSE LET content == response.body.content
         IN  IF content.json.kind = "object"
             THEN <<Get(content.json.object, "insights", <<>>),
                    Get(content.json.object, "recommendations", <<>>)>>
             ELSE _get_fallback_insights

_get_ai_insights(response) ==
    IF ~use_ai THEN MockInsights
    ELSE IF response.error # "" THEN _get_fallback_insights
    ELSE IF response.status_code # 200 THEN _get_fallback_insights
    ELSE IF ~response.body.is_json THEN _get_fallback_insights
    ELSE IF ~response.body.has_content THEN _get_fallback_insights
    ELSE LET content == response.body.content
             isInsight(line) == "insight" \in line.found \/ "improved" \in line.found
             isRecommendation(line) == "recommend" \in line.found \/ "try" \in line.found
         IN  CASE content.json.kind = "object" ->
                    <<Get(content.json.object, "insights", <<>>),
                      Get(content.json.object, "recommendations", <<>>)>>
               [] content.json.kind = "invalid" ->
                    <<Prefix(Texts(SelectSeq(content.lines, isInsight)), 3),
                      Prefix(Texts(SelectSeq(content.lines, isRecommendation)), 3)>>
               [] OTHER -> _get_fallback_insights

(***************************************************************************)
(* generate_daily_report (lines 303-409) and its helpers.                  *)
(* A str built by an f-string is the tuple of its literal part and of the  *)
(* values embedded in it: id is <<prefix, user_id, date>>, a summary is    *)
(* <<text, session_count>>.                                                *)
(***************************************************************************)
_generate_fallback_report(user_id, date) ==
    [date                |-> date,
     id                  |-> <<"fallback_", user_id, date>>,
     summary             |-> <<"No practice sessions recorded for this date. Start practicing to see your vocal analysis!">>,
     metrics             |-> <<>>,
     insights            |-> <<"Begin with daily vocal warm-ups", "Practice breathing exercises",
                               "Record your sessions to track progress">>,
     recommendations     |-> <<"Start with 10-minute daily sessions",
                               "Focus on proper breathing technique",
                               "Use the practice feature regularly">>,
     practice_sessions   |-> 0,
     total_practice_time |-> 0,
     best_time_of_day    |-> "Morning"]

GenerateSummaryEqualCountsAsProgress(current, previous) ==
    IF previous # None
    THEN IF current.session_count >= previous.session_count
         THEN <<"Excellent progress today! You completed {} practice sessions, showing increased dedication to your vocal development.",
                current.session_count>>
         ELSE <<"Completed {} practice sessions today. Consider increasing practice frequency for optimal progress.",
                current.session_count>>
    ELSE <<"Great start! You completed {} practice sessions today. Keep up the momentum!",
           current.session_count>>

_generate_summary(current, previous) ==
    IF previous # None
    THEN IF current.session_count > previous.session_count
         THEN <<"Excellent progress today! You completed {} practice sessions, showing increased dedication to your vocal development.",
                current.session_count>>
         ELSE IF current.session_count = previous.session_count
         THEN <<"Consistent practice maintained with {} sessions today. Your vocal technique continues to develop steadily.",
                current.session_count>>
         ELSE <<"Completed {} practice sessions today. Consider increasing practice frequency for optimal progress.",
                current.session_count>>
    ELSE <<"Great start! You completed {} practice sessions today. Keep up the momentum!",
           current.session_count>>

\* One MetricComparison (lines 326-332): missing is what stands for the
\* previous value in change, trend and improvement_percentage when there are
\* no previous metrics.
MetricComparison(current, previous, missing) ==
    [current                |-> current,
     previous               |-> previous,
     change                 |-> RatSub(current, IF previous # None THEN previous ELSE missing),
     trend                  |-> _calculate_improvement(
                                    current, IF previous # None THEN previous ELSE missing)[2],
     improvement_percentage |-> _calculate_improvement(
                                    current, IF previous # None THEN previous ELSE missing)[1]]

MetricKeys == {"mean_pitch", "vibrato_rate", "jitter", "shimmer", "total_sessions"}

BuildMetricsPreviousZero(daily_metrics, previous_metrics) ==
    LET prev(f) == IF previous_metrics # None THEN previous_metrics[f] ELSE RatOf(0)
        prevCount == IF previous_metrics # None THEN RatOf(previous_metrics.session_count)
                     ELSE RatOf(0)
    IN  [k \in MetricKeys |->
            CASE k = "mean_pitch" -> MetricComparison(daily_metrics.mean_pitch_avg, prev("mean_pitch_avg"), RatOf(0))
              [] k = "vibrato_rate" -> MetricComparison(daily_metrics.vibrato_rate_avg, prev("vibrato_rate_avg"), RatOf(0))
              [] k = "jitter" -> MetricComparison(daily_metrics.jitter_avg, prev("jitter_avg"), RatOf(0))
              [] k = "shimmer" -> MetricComparison(daily_metrics.shimmer_avg, prev("shimmer_avg"), RatOf(0))
              [] k = "total_sessions" -> MetricComparison(RatOf(daily_metrics.session_count), prevCount, RatOf(0))]

BuildMetricsCountFromItself(daily_metrics, previous_metrics) ==
    LET prev(f) == IF previous_metrics # None THEN previous_metrics[f] ELSE None
        prevCount == IF previous_metrics # None THEN RatOf(previous_metrics.session_count)
                     ELSE None
    IN  [k \in MetricKeys |->
            CASE k = "mean_pitch" -> MetricComparison(daily_metrics.mean_pitch_avg, prev("mean_pitch_avg"), daily_metrics.mean_pitch_avg)
              [] k = "vibrato_rate" -> MetricComparison(daily_metrics.vibrato_rate_avg, prev("vibrato_rate_avg"), daily_metrics.vibrato_rate_avg)
              [] k = "jitter" -> MetricComparison(daily_metrics.jitter_avg, prev("jitter_avg"), daily_metrics.jitter_avg)
              [] k = "shimmer" -> MetricComparison(daily_metrics.shimmer_avg, prev("shimmer_avg"), daily_metrics.shimmer_avg)
              [] k = "total_sessions" -> MetricComparison(RatOf(daily_metrics.session_count), prevCount, RatOf(daily_metrics.session_count))]

\* metrics = {...} (lines 323-365)
BuildMetrics(daily_metrics, previous_metrics) ==
    LET prev(f) == IF previous_metrics # None THEN previous_metrics[f] ELSE None
        prevCount == IF previous_metrics # None THEN RatOf(previous_metrics.session_count)
                     ELSE None
    IN  [k \in MetricKeys |->
            CASE k = "mean_pitch" -> MetricComparison(daily_metrics.mean_pitch_avg, prev("mean_pitch_avg"), daily_metrics.mean_pitch_avg)
              [] k = "vibrato_rate" -> MetricComparison(daily_metrics.vibrato_rate_avg, prev("vibrato_rate_avg"), daily_metrics.vibrato_rate_avg)
              [] k = "jitter" -> MetricComparison(daily_metrics.jitter_avg, prev("jitter_avg"), daily_metrics.jitter_avg)
              [] k = "shimmer" -> MetricComparison(daily_metrics.shimmer_avg, prev("shimmer_avg"), daily_metrics.shimmer_avg)
              [] k = "total_sessions" -> MetricComparison(RatOf(daily_metrics.session_count), prevCount, RatOf(0))]

(***************************************************************************)
(* The body of generate_daily_report, one operator per step between two    *)
(* points where the coroutine can be suspended. A step takes the call's    *)
(* arguments a, its local variables and the collaborator's response, and   *)
(* yields the next position, the locals, the report returned (None while   *)
(* running), the exception that escaped and the calls made.                *)
(***************************************************************************)
EmptyLocals ==
    [sessions |-> None, daily_metrics |-> None, previous_metrics |-> None,
     metrics |-> None, insights |-> None, recommendations |-> None]

Goto(next, locals, calls) ==
    [pc |-> next, locals |-> locals, report |-> None, raised |-> "", calls |-> calls]

Return(locals, rep, calls) ==
    [pc |-> "done", locals |-> locals, report |-> rep, raised |-> "", calls |-> calls]

ExceptValueErrorOnly(exc, a, locals, calls) ==
    IF exc = "ValueError"
    THEN Return(locals, _generate_fallback_report(a.user_id, a.date),
                calls \o <<"except", "_generate_fallback_report">>)
    ELSE [pc |-> "done", locals |-> locals, report |-> None, raised |-> exc, calls |-> calls]

\* except Exception as e: ... return self._generate_fallback_report(...)
\* (lines 407-409)
Except(exc, a, locals, calls) ==
    Return(locals, _generate_fallback_report(a.user_id, a.date),
           calls \o <<"except", "_generate_fallback_report">>)

FetchTodayStepNoEmptyCheck(a, locals, response) ==
    Goto("aggregate",
         [locals EXCEPT !.sessions = _get_daily_sessions(a.user_id, a.date, response)],
         <<"_get_daily_sessions">>)

\* lines 307-310
FetchTodayStep(a, locals, response) ==
    LET sessions == _get_daily_sessions(a.user_id, a.date, response)
    IN  IF sessions = <<>>
        THEN Return([locals EXCEPT !.sessions = sessions],
                    _generate_fallback_report(a.user_id, a.date),
                    <<"_get_daily_sessions", "_generate_fallback_report">>)
        ELSE Goto("aggregate", [locals EXCEPT !.sessions = sessions],
                  <<"_get_daily_sessions">>)

\* lines 313-315
AggregateStep(a, locals) ==
    LET daily_metrics == _aggregate_daily_metrics(locals.sessions)
        calls == <<"_aggregate_daily_metrics">>
    IN  IF daily_metrics.raises # "" THEN Except(daily_metrics.raises, a, locals, calls)
        ELSE IF daily_metrics.value = None
        THEN Return(locals, _generate_fallback_report(a.user_id, a.date),
                    calls \o <<"_generate_fallback_report">>)
        ELSE Goto("fetch_previous", [locals EXCEPT !.daily_metrics = daily_metrics.value],
                  calls)

\* lines 318-320
FetchPreviousStep(a, locals, response) ==
    LET parsed == Strptime(a.date)
    IN  IF parsed.raises # "" THEN Except(parsed.raises, a, locals, <<>>)
        ELSE
        LET previous_date     == <<"date", parsed.value - 1>>
            previous_sessions == _get_daily_sessions(a.user_id, previous_date, response)
            previous_metrics  == IF previous_sessions # <<>>
                                 THEN _aggregate_daily_metrics(previous_sessions)
                                 ELSE Returns(None)
            calls == IF previous_sessions # <<>>
                     THEN <<"_get_daily_sessions", "_aggregate_daily_metrics">>
                     ELSE <<"_get_daily_sessions">>
        IN  IF previous_metrics.raises # ""
            THEN Except(previous_metrics.raises, a, locals, calls)
            ELSE Goto("compare",
                      [locals EXCEPT !.previous_metrics = previous_metrics.value], calls)

\* lines 323-365
CompareStep(a, locals) ==
    Goto("insights",
         [locals EXCEPT !.metrics = BuildMetrics(locals.daily_metrics, locals.previous_metrics)],
         <<"_calculate_improvement">>)

\* lines 368-384
InsightsStep(a, locals, response) ==
    LET pair == _get_ai_insights(response)
    IN  Goto("assemble",
             [locals EXCEPT !.insights = pair[1], !.recommendations = pair[2]],
             <<"_get_ai_insights">>)

AssembleStepFallbackId(a, locals) ==
    Return(locals,
           [date                |-> a.date,
            id                  |-> <<"fallback_", a.user_id, a.date>>,
            summary             |-> _generate_summary(locals.daily_metrics, locals.previous_metrics),
            metrics             |-> locals.metrics,
            insights            |-> locals.insights,
            recommendations     |-> locals.recommendations,
            practice_sessions   |-> locals.daily_metrics.session_count,
            total_practice_time |-> locals.daily_metrics.session_count * 15,
            best_time_of_day    |-> "Morning (9-11 AM)"],
           <<"_generate_summary">>)

\* lines 387-405
AssembleStep(a, locals) ==
    Return(locals,
           [date                |-> a.date,
            id                  |-> <<"report_", a.user_id, a.date>>,
            summary             |-> _generate_summary(locals.daily_metrics, locals.previous_metrics),
            metrics             |-> locals.metrics,
            insights            |-> locals.insights,
            recommendations     |-> locals.recommendations,
            practice_sessions   |-> locals.daily_metrics.session_count,
            total_practice_time |-> locals.daily_metrics.session_count * 15,
            best_time_of_day    |-> "Morning (9-11 AM)"],
           <<"_generate_summary">>)

(***************************************************************************)
(* Concurrent calls of generate_daily_report on the shared instance        *)
(* fetch_ai_coach (line 460).                                              *)
(***************************************************************************)
Procs == {1, 2}

\* The frame holding the local variables of call p: each call has its own.
SharedSlot(p) == 1

Slot(p) == p

Slots == {Slot(p) : p \in Procs}

NoResponse == None

NoGot == [today |-> NoResponse, previous |-> NoResponse, ai |-> NoResponse]

\* Rows of vocal_analysis_history the store may hold.
RowFull ==
    [created_at |-> <<"iso", 14940>>, mean_pitch |-> Rat(2205, 10),
     vibrato_rate |-> Rat(58, 10), jitter |-> Rat(12, 1000), shimmer |-> Rat(17, 1000),
     dynamics |-> "stable", voice_type |-> "tenor",
     lowest_note |-> <<"C", "3">>, highest_note |-> <<"A", "4">>]

RowHigher ==
    [created_at |-> <<"iso", 15060>>, mean_pitch |-> Rat(2251, 10),
     vibrato_rate |-> Rat(62, 10), jitter |-> Rat(11, 1000), shimmer |-> Rat(17, 1000),
     dynamics |-> "varied", voice_type |-> "tenor",
     lowest_note |-> <<"D", "3">>, highest_note |-> <<"B", "4">>]

RowBare == [created_at |-> <<"iso", 15000>>]

RowBadNote == [RowFull EXCEPT !.lowest_note = <<"C", "#">>]

RowNullPitch == [RowFull EXCEPT !.mean_pitch = None]

RowBadTime == [RowFull EXCEPT !.created_at = <<"text", 0>>]

\* What the store may answer: the first n of the rows RowFull, RowHigher,
\* RowBare, RowFull, ... for n up to MaxRows, and the rows that make the
\* fetch or the aggregation fail.
MaxRows == 2

WellFormedRow(i) ==
    CASE i % 3 = 1 -> RowFull
      [] i % 3 = 2 -> RowHigher
      [] OTHER -> RowBare

StoreData ==
    {[i \in 1..n |-> WellFormedRow(i)] : n \in 0..MaxRows}
        \cup { <<RowBare>>, <<RowBadNote>>, <<RowFull, RowNullPitch>>, <<RowBadTime>> }

StoreResponses ==
    {[error |-> "", data |-> d] : d \in StoreData}
        \cup {[error |-> "APIError", data |-> <<>>]}

\* Responses of the text generator.
Line(text, found) == [text |-> text, found |-> found]

NoContent == [lines |-> <<>>, json |-> [kind |-> "invalid"]]

JsonContent(object) == [lines |-> <<"{...}">>, json |-> [kind |-> "object", object |-> object]]

TextContent ==
    [lines |-> << Line("Here are my insights:", {"insight"}),
                  Line("Your tone improved.", {"improved"}),
                  Line("", {}),
                  Line("Insight: steady vibrato. I recommend scales.", {"insight", "recommend"}),
                  Line("Your range improved too.", {"improved"}),
                  Line("Try humming in the country air.", {"try"}) >>,
     json  |-> [kind |-> "invalid"]]

Body(is_json, has_content, content) ==
    [is_json |-> is_json, has_content |-> has_content, content |-> content]

FullObject ==
    ("insights" :> <<"i1", "i2", "i3">>) @@ ("recommendations" :> <<"r1", "r2", "r3">>)

AiResponses ==
    { [error |-> "Timeout", status_code |-> 0, body |-> Body(FALSE, FALSE, NoContent)],
      [error |-> "", status_code |-> 500, body |-> Body(TRUE, TRUE, JsonContent(FullObject))],
      [error |-> "", status_code |-> 200, body |-> Body(FALSE, FALSE, NoContent)],
      [error |-> "", status_code |-> 200, body |-> Body(TRUE, FALSE, NoContent)],
      [error |-> "", status_code |-> 200, body |-> Body(TRUE, TRUE, JsonContent(FullObject))],
      [error |-> "", status_code |-> 200,
       body |-> Body(TRUE, TRUE, JsonContent("insights" :> <<"i1">>))],
      [error |-> "", status_code |-> 200,
       body |-> Body(TRUE, TRUE, [lines |-> <<"[1, 2]">>, json |-> [kind |-> "array"]])],
      [error |-> "", status_code |-> 200, body |-> Body(TRUE, TRUE, TextContent)] }

\* The labels of dynamics and voice_type, and the orders in which this
\* interpreter run may iterate a set of them.
Labels == {"stable", "varied", "tenor", "bass"}

HashOrders(S) ==
    {f \in [1..Cardinality(S) -> S] : \A i, j \in 1..Cardinality(S) : f[i] = f[j] => i = j}

User1Day10 == [user_id |-> "u1", date |-> <<"date", 10>>]

User2Day10 == [user_id |-> "u2", date |-> <<"date", 10>>]

User1NoDate == [user_id |-> "u1", date |-> <<"text", 0>>]

Started == Goto("start", EmptyLocals, <<>>)

InitCalls ==
    /\ frame = [s \in Slots |-> EmptyLocals]
    /\ report = [p \in Procs |-> None]
    /\ raised = [p \in Procs |-> ""]
    /\ trace = [p \in Procs |-> <<>>]
    /\ got = [p \in Procs |-> NoGot]
    /\ alone = [p \in Procs |-> Started]
    /\ input = None
    /\ output = None

\* One call of generate_daily_report, on an instance built with or without
\* the Supabase credentials and the ASI-1 key (lines 79-100).
Init ==
    /\ supabase \in BOOLEAN
    /\ use_ai \in BOOLEAN
    /\ hashOrder \in { <<"unknown", "bass", "tenor", "varied", "stable">>,
                       <<"stable", "varied", "tenor", "bass", "unknown">> }
    /\ args \in {(1 :> a) @@ (2 :> User2Day10) : a \in {User1Day10, User1NoDate}}
    /\ pc = (1 :> "start") @@ (2 :> "idle")
    /\ InitCalls

\* Two calls for different (user_id, date) pairs, in flight together, on an
\* instance built with the store, with the text generator, or with neither.
InitConcurrent ==
    /\ supabase \in BOOLEAN
    /\ use_ai \in BOOLEAN
    /\ ~(supabase /\ use_ai)
    /\ hashOrder = <<"unknown", "bass", "tenor", "varied", "stable">>
    /\ args \in {(1 :> User1Day10) @@ (2 :> a) : a \in {User2Day10, User1NoDate}}
    /\ pc = [p \in Procs |-> "start"]
    /\ InitCalls

\* Call p takes the step r; run by itself it takes the step ra. Its
\* position, locals, result and calls change.
Take(p, r, ra) ==
    /\ pc' = [pc EXCEPT ![p] = r.pc]
    /\ frame' = [frame EXCEPT ![Slot(p)] = r.locals]
    /\ report' = [report EXCEPT ![p] = r.report]
    /\ raised' = [raised EXCEPT ![p] = r.raised]
    /\ trace' = [trace EXCEPT ![p] = @ \o r.calls]
    /\ alone' = [alone EXCEPT ![p] = IF alone[p].pc = pc[p] THEN ra ELSE @]
    /\ UNCHANGED <<supabase, use_ai, hashOrder, args, input, output>>

FetchToday(p) ==
    /\ pc[p] = "start"
    /\ \E response \in (IF supabase THEN StoreResponses ELSE {NoResponse}) :
        /\ got' = [got EXCEPT ![p].today = response]
        /\ Take(p, FetchTodayStep(args[p], frame[Slot(p)], response),
                   FetchTodayStep(args[p], alone[p].locals, response))

AggregateToday(p) ==
    /\ pc[p] = "aggregate"
    /\ got' = got
    /\ Take(p, AggregateStep(args[p], frame[Slot(p)]),
               AggregateStep(args[p], alone[p].locals))

FetchPrevious(p) ==
    /\ pc[p] = "fetch_previous"
    /\ \E response \in (IF supabase /\ Strptime(args[p].date).raises = ""
                        THEN StoreResponses ELSE {NoResponse}) :
        /\ got' = [got EXCEPT ![p].previous = response]
        /\ Take(p, FetchPreviousStep(args[p], frame[Slot(p)], response),
                   FetchPreviousStep(args[p], alone[p].locals, response))

Compare(p) ==
    /\ pc[p] = "compare"
    /\ got' = got
    /\ Take(p, CompareStep(args[p], frame[Slot(p)]),
               CompareStep(args[p], alone[p].locals))

GetInsights(p) ==
    /\ pc[p] = "insights"
    /\ \E response \in (IF use_ai THEN AiResponses ELSE {NoResponse}) :
        /\ got' = [got EXCEPT ![p].ai = response]
        /\ Take(p, InsightsStep(args[p], frame[Slot(p)], response),
                   InsightsStep(args[p], alone[p].locals, response))

Assemble(p) ==
    /\ pc[p] = "assemble"
    /\ got' = got
    /\ Take(p, AssembleStep(args[p], frame[Slot(p)]),
               AssembleStep(args[p], alone[p].locals))

Next ==
    \/ \E p \in Procs : FetchToday(p)
    \/ \E p \in Procs : AggregateToday(p)
    \/ \E p \in Procs : FetchPrevious(p)
    \/ \E p \in Procs : Compare(p)
    \/ \E p \in Procs : GetInsights(p)
    \/ \E p \in Procs : Assemble(p)

Spec == Init /\ [][Next]_vars

SpecConcurrent == InitConcurrent /\ [][Next]_vars

(***************************************************************************)
(* Specifications applying one pure function to inputs drawn from bounded  *)
(* sets. No call of generate_daily_report runs in them.                    *)
(***************************************************************************)
NoCalls ==
    /\ supabase = TRUE
    /\ use_ai = TRUE
    /\ args = (1 :> User1Day10) @@ (2 :> User2Day10)
    /\ pc = [p \in Procs |-> "idle"]
    /\ frame = [s \in Slots |-> EmptyLocals]
    /\ report = [p \in Procs |-> None]
    /\ raised = [p \in Procs |-> ""]
    /\ trace = [p \in Procs |-> <<>>]
    /\ got = [p \in Procs |-> NoGot]
    /\ alone = [p \in Procs |-> Started]

RECURSIVE SeqsUpTo(_, _)
SeqsUpTo(S, n) ==
    IF n = 0 THEN {<<>>}
    ELSE LET shorter == SeqsUpTo(S, n - 1)
         IN  shorter \cup {Append(q, x) : q \in {r \in shorter : Len(r) = n - 1}, x \in S}

\* _note_to_frequency on every string of at most MaxNoteLen characters.
MaxNoteLen == 3

NoteChars == {"C", "D", "A", "#", "Z", "x", "3", "4"}

InitNote ==
    /\ NoCalls
    /\ hashOrder = <<"stable", "varied", "tenor", "bass">>
    /\ input \in SeqsUpTo(NoteChars, MaxNoteLen)
    /\ output = None

ApplyNoteToFrequency ==
    /\ output = None
    /\ output' = _note_to_frequency(input)
    /\ UNCHANGED <<supabase, use_ai, hashOrder, args, pc, frame, report, raised, trace,
                   got, alone, input>>

SpecNote == InitNote /\ [][ApplyNoteToFrequency]_vars

\* _calculate_improvement on current = c / 2 and previous = p, for
\* |c| <= 2 * MaxValue and |p| <= MaxValue.
MaxValue == 110

InitImprovement ==
    /\ NoCalls
    /\ hashOrder = <<"stable", "varied", "tenor", "bass">>
    /\ input \in {<<Rat(c, 2), RatOf(p)>> :
                    c \in (-2 * MaxValue)..(2 * MaxValue), p \in (-MaxValue)..MaxValue}
    /\ output = None

ApplyCalculateImprovement ==
    /\ output = None
    /\ output' = _calculate_improvement(input[1], input[2])
    /\ UNCHANGED <<supabase, use_ai, hashOrder, args, pc, frame, report, raised, trace,
                   got, alone, input>>

SpecImprovement == InitImprovement /\ [][ApplyCalculateImprovement]_vars

\* _aggregate_daily_metrics on every list of at most MaxSessions sessions,
\* under every iteration order of the sets of labels.
MaxSessions == 3

SampleSession(dynamics, voice_type, lowest_note, highest_note) ==
    [timestamp |-> Now, mean_pitch |-> Rat(2205, 10), vibrato_rate |-> Rat(58, 10),
     jitter |-> Rat(12, 1000), shimmer |-> Rat(17, 1000), dynamics |-> dynamics,
     voice_type |-> voice_type, lowest_note |-> lowest_note, highest_note |-> highest_note]

SampleSessions ==
    { SampleSession("stable", "tenor", <<"C", "3">>, <<"A", "4">>),
      SampleSession("varied", "bass", <<"D", "3">>, <<"B", "4">>),
      SampleSession("stable", "bass", <<"Z", "4">>, <<"A", "#", "4">>),
      SampleSession("varied", "tenor", <<"C", "3">>, <<>>),
      SampleSession("stable", "tenor", <<"C", "#">>, <<"A", "4">>),
      SampleSession("varied", "tenor", <<"C", "3">>, <<"B", "x">>) }

InitAggregate ==
    /\ NoCalls
    /\ hashOrder \in HashOrders(Labels)
    /\ input \in SeqsUpTo(SampleSessions, MaxSessions)
    /\ output = None

ApplyAggregateDailyMetrics ==
    /\ output = None
    /\ output' = _aggregate_daily_metrics(input)
    /\ UNCHANGED <<supabase, use_ai, hashOrder, args, pc, frame, report, raised, trace,
                   got, alone, input>>

SpecAggregate == InitAggregate /\ [][ApplyAggregateDailyMetrics]_vars

(***************************************************************************)
(* Properties of _note_to_frequency, checked under SpecNote.               *)
(***************************************************************************)
IsPitchClass(note_name) == \E i \in 1..Len(note_names) : note_names[i] = note_name

\* C5: _note_to_frequency is total: for every string it returns a value and
\* never raises, and it returns 0 whenever the string has fewer than 2
\* characters or the part before its last character is not one of the
\* twelve pitch-class names.
C5_NoteToFrequencyTotal ==
    output # None =>
        /\ output.raises = ""
        /\ (Len(input) < 2 \/ ~IsPitchClass(SubSeq(input, 1, Len(input) - 1)))
               => output.value = 0

(***************************************************************************)
(* Properties of _calculate_improvement, checked under SpecImprovement.    *)
(***************************************************************************)
\* C6: _calculate_improvement(current, previous) returns (0, "baseline")
\* when previous == 0; otherwise the percentage p with
\* p * previous = (current - previous) * 100 and the trend "baseline"
\* exactly when |p| < 1, "up" exactly when p >= 1, "down" exactly when
\* p <= -1.
C6_CalculateImprovement ==
    output # None =>
        LET current  == input[1]
            previous == input[2]
            pct      == output[1]
            trend    == output[2]
        IN  IF previous[1] = 0
            THEN pct = <<0, 1>> /\ trend = "baseline"
            ELSE /\ pct[1] * previous[1] * current[2]
                        = (current[1] * previous[2] - previous[1] * current[2]) * 100
                            * pct[2] * previous[2]
                 /\ trend \in {"baseline", "up", "down"}
                 /\ trend = "baseline" <=> (-pct[2] < pct[1] /\ pct[1] < pct[2])
                 /\ trend = "up" <=> pct[1] >= pct[2]
                 /\ trend = "down" <=> pct[1] <= -pct[2]

\* 100.5 against 100 has been classified: 0.5%, inside the 1% band.
C6_Witness ==
    input = <<<<201, 2>>, <<100, 1>>>> /\ output = <<<<1, 2>>, "baseline">>

(***************************************************************************)
(* Properties of _aggregate_daily_metrics, checked under SpecAggregate.    *)
(***************************************************************************)
Aggregated == output # None /\ input # <<>> /\ output.raises = ""

Occurrences(f, x) == Cardinality({i \in 1..Len(input) : input[i][f] = x})

HighestCount(f, x) ==
    /\ \E i \in 1..Len(input) : input[i][f] = x
    /\ \A i \in 1..Len(input) : Occurrences(f, input[i][f]) <= Occurrences(f, x)

FirstSeen(f, x) == CHOOSE i \in 1..Len(input) : input[i][f] = x /\ \A j \in 1..(i - 1) : input[j][f] # x

HashPosition(x) == CHOOSE i \in 1..Len(hashOrder) : hashOrder[i] = x

FrequencyOrZero(note) ==
    IF _note_to_frequency(note).raises # "" THEN 0 ELSE _note_to_frequency(note).value

\* C10: for every non-empty session sequence aggregation does not fail, and
\* returns as lowest_note the lowest_note of a session whose frequency is
\* minimal and as highest_note the highest_note of a session whose
\* frequency is maximal, a malformed note counting as frequency 0.
C10_VocalRangeExtremes ==
    (output # None /\ input # <<>>) =>
        /\ output.raises = ""
        /\ \E i \in 1..Len(input) :
               /\ output.value.lowest_note = input[i].lowest_note
               /\ \A j \in 1..Len(input) :
                      FrequencyOrZero(input[i].lowest_note) <= FrequencyOrZero(input[j].lowest_note)
        /\ \E i \in 1..Len(input) :
               /\ output.value.highest_note = input[i].highest_note
               /\ \A j \in 1..Len(input) :
                      FrequencyOrZero(input[j].highest_note) <= FrequencyOrZero(input[i].highest_note)

(***************************************************************************)
(* Properties of generate_daily_report, checked under Spec.                *)
(***************************************************************************)
Done(p) == pc[p] = "done"

IsFallback(rep) ==
    /\ rep # None
    /\ rep.id[1] = "fallback_"
    /\ rep.practice_sessions = 0
    /\ rep.total_practice_time = 0
    /\ rep.metrics = <<>>
    /\ Len(rep.insights) = 3
    /\ Len(rep.recommendations) = 3

IsNormal(rep) == rep # None /\ rep.id[1] = "report_"

Called(p, name) == \E i \in 1..Len(trace[p]) : trace[p][i] = name

\* The fetch of call p that got this response yielded no sessions: the
\* store had no rows, the store call failed, or a row could not be read.
NoSessions(p, response) ==
    /\ response # NoResponse
    /\ _get_daily_sessions(args[p].user_id, args[p].date, response) = <<>>

StoreFailed(response) == response # NoResponse /\ response.error # ""

\* Ways the text-generation call fails before any content is read.
AiHardFailure(response) ==
    /\ response # NoResponse
    /\ \/ response.error # ""
       \/ response.status_code # 200
       \/ ~response.body.is_json
       \/ ~response.body.has_content
       \/ response.body.content.json.kind = "array"

\* Any failure of the text-generation call, a content that is not the JSON
\* object asked for included.
AiFailure(response) ==
    /\ response # NoResponse
    /\ \/ AiHardFailure(response)
       \/ response.body.content.json.kind = "invalid"

\* C1 as claimed: the call never raises, it ends by returning a Report, and
\* when an error occurred in one of its steps (a failed store call for today
\* or for yesterday, an exception in aggregation or comparison) that Report
\* is the fallback report. A failed text-generation call is not counted as
\* such an error: step 6 replaces its result and goes on.
C1_AnyErrorGivesFallbackReport ==
    \A p \in Procs :
        /\ raised[p] = ""
        /\ Done(p) =>
            /\ IsFallback(report[p]) \/ IsNormal(report[p])
            /\ ( \/ StoreFailed(got[p].today)
                 \/ StoreFailed(got[p].previous)
                 \/ Called(p, "except") ) => IsFallback(report[p])

\* C1 as amended: the call never raises, it ends by returning a Report, and
\* when today's store call failed or an exception reached the handler of
\* generate_daily_report that Report is the fallback report.
C1_NeverRaises ==
    \A p \in Procs :
        /\ raised[p] = ""
        /\ Done(p) =>
            /\ IsFallback(report[p]) \/ IsNormal(report[p])
            /\ (StoreFailed(got[p].today) \/ Called(p, "except")) => IsFallback(report[p])

\* A call whose aggregation raised TypeError has returned the fallback report.
C1_Witness ==
    \E p \in Procs :
        /\ Done(p)
        /\ Called(p, "except")
        /\ _aggregate_daily_metrics(frame[Slot(p)].sessions).raises = "TypeError"
        /\ IsFallback(report[p])

\* C2: whenever today's fetch yields no sessions (the store has none, or the
\* store call failed) the call has returned the fallback report: id
\* starting with "fallback_", no sessions, no practice time, no metrics,
\* exactly 3 insights and 3 recommendations; and it made no aggregation, no
\* fetch of the previous day and no text-generation call.
C2_NoSessionsFallbackImmediately ==
    \A p \in Procs :
        NoSessions(p, got[p].today) =>
            /\ Done(p)
            /\ raised[p] = ""
            /\ report[p] = _generate_fallback_report(args[p].user_id, args[p].date)
            /\ IsFallback(report[p])
            /\ trace[p] = <<"_get_daily_sessions", "_generate_fallback_report">>
            /\ got[p].previous = NoResponse
            /\ got[p].ai = NoResponse

C2_Witness ==
    \E p \in Procs :
        /\ Done(p)
        /\ got[p].today = [error |-> "", data |-> <<>>]
        /\ IsFallback(report[p])

\* Call p had sessions today, fetched the previous day and found none (the
\* store had none, or that store call failed).
FirstDay(p) ==
    /\ Done(p)
    /\ frame[Slot(p)].sessions # None
    /\ frame[Slot(p)].sessions # <<>>
    /\ NoSessions(p, got[p].previous)

C4_AnyFailureGivesFallbackInsights ==
    \A p \in Procs :
        /\ raised[p] = ""
        /\ (Done(p) /\ AiFailure(got[p].ai)) =>
               /\ IsNormal(report[p])
               /\ report[p].insights = _get_fallback_insights[1]
               /\ report[p].recommendations = _get_fallback_insights[2]

\* C4 as amended: no failure of the text-generation call is raised. On a
\* transport error, a timeout, a non-success status, a body that is not
\* JSON or lacks choices[0].message.content, or a content that is JSON but
\* no object, the Report carries exactly the insights and recommendations
\* of _get_fallback_insights. On a content that is not JSON the Report
\* carries instead at most 3 lines of that content in each list.
C4_HardFailureGivesFallbackInsights ==
    \A p \in Procs :
        /\ raised[p] = ""
        /\ (Done(p) /\ AiHardFailure(got[p].ai)) =>
               /\ IsNormal(report[p])
               /\ report[p].insights = _get_fallback_insights[1]
               /\ report[p].recommendations = _get_fallback_insights[2]
        /\ (Done(p) /\ AiFailure(got[p].ai) /\ ~AiHardFailure(got[p].ai)) =>
               /\ IsNormal(report[p])
               /\ \A list \in {report[p].insights, report[p].recommendations} :
                      /\ Len(list) <= 3
                      /\ \A i \in 1..Len(list) :
                             \E j \in 1..Len(got[p].ai.body.content.lines) :
                                 got[p].ai.body.content.lines[j].text = list[i]

C4_Witness ==
    \E p \in Procs :
        /\ Done(p)
        /\ got[p].ai # NoResponse
        /\ got[p].ai.error = "Timeout"
        /\ IsNormal(report[p])
        /\ report[p].insights = _get_fallback_insights[1]

NoPreviousMetrics(p) ==
    /\ Done(p)
    /\ IsNormal(report[p])
    /\ frame[Slot(p)].previous_metrics = None

NumericMetricKeys == {"mean_pitch", "vibrato_rate", "jitter", "shimmer"}

\* C8 as claimed: when no previous-day metrics exist, each of the five
\* comparisons has change == 0 and improvement_percentage == 0.
C8_AllFiveChangeZero ==
    \A p \in Procs :
        NoPreviousMetrics(p) =>
            \A k \in MetricKeys :
                /\ report[p].metrics[k].change = <<0, 1>>
                /\ report[p].metrics[k].improvement_percentage = <<0, 1>>

\* C8 as amended: when no previous-day metrics exist, mean_pitch,
\* vibrato_rate, jitter and shimmer have change == 0 and
\* improvement_percentage == 0; total_sessions has
\* improvement_percentage == 0 and change equal to today's session count,
\* its missing previous value being replaced by 0.
C8_NeutralFirstDay ==
    \A p \in Procs :
        NoPreviousMetrics(p) =>
            /\ \A k \in NumericMetricKeys :
                   /\ report[p].metrics[k].change = <<0, 1>>
                   /\ report[p].metrics[k].improvement_percentage = <<0, 1>>
            /\ report[p].metrics["total_sessions"].improvement_percentage = <<0, 1>>
            /\ report[p].metrics["total_sessions"].change = <<report[p].practice_sessions, 1>>
            /\ report[p].practice_sessions >= 1

C8_Witness ==
    \E p \in Procs :
        /\ NoPreviousMetrics(p)
        /\ report[p].metrics["mean_pitch"].current # <<0, 1>>
        /\ report[p].metrics["mean_pitch"].change = <<0, 1>>
        /\ report[p].metrics["total_sessions"].change = <<2, 1>>

(***************************************************************************)
(* The narrative summary of a returned Report, checked under Spec.         *)
(***************************************************************************)
FirstDayFraming ==
    "Great start! You completed {} practice sessions today. Keep up the momentum!"

IncreasedFraming ==
    "Excellent progress today! You completed {} practice sessions, showing increased dedication to your vocal development."

ConsistentFraming ==
    "Consistent practice maintained with {} sessions today. Your vocal technique continues to develop steadily."

FewerFraming ==
    "Completed {} practice sessions today. Consider increasing practice frequency for optimal progress."

\* C11: the summary of a Report that is not the fallback is one of exactly
\* four framings: "Great start" if and only if there are no previous-day
\* metrics; otherwise "increased dedication" if and only if today's
\* session_count is greater than the previous one, "consistent practice" if
\* and only if the two are equal, "consider increasing frequency" if and
\* only if today's is smaller; and it always embeds today's session_count.
C11_SummaryFraming ==
    \A p \in Procs :
        (Done(p) /\ IsNormal(report[p])) =>
            LET framing  == report[p].summary[1]
                today    == frame[Slot(p)].daily_metrics.session_count
                previous == frame[Slot(p)].previous_metrics
            IN  /\ Len(report[p].summary) = 2
                /\ report[p].summary[2] = today
                /\ today = Len(_get_daily_sessions(args[p].user_id, args[p].date, got[p].today))
                /\ framing \in {FirstDayFraming, IncreasedFraming, ConsistentFraming, FewerFraming}
                /\ framing = FirstDayFraming <=> previous = None
                /\ framing = IncreasedFraming
                       <=> (previous # None /\ today > previous.session_count)
                /\ framing = ConsistentFraming
                       <=> (previous # None /\ today = previous.session_count)
                /\ framing = FewerFraming
                       <=> (previous # None /\ today < previous.session_count)

\* A day of one session after a day of two: the "consider increasing
\* frequency" framing, embedding 1.
C11_Witness ==
    \E p \in Procs :
        /\ Done(p)
        /\ IsNormal(report[p])
        /\ frame[Slot(p)].previous_metrics # None
        /\ frame[Slot(p)].previous_metrics.session_count = 2
        /\ report[p].summary = <<FewerFraming, 1>>

\* Equal counts on both days: the "consistent practice" framing.
C11_WitnessEqualCounts ==
    \E p \in Procs :
        /\ Done(p)
        /\ IsNormal(report[p])
        /\ frame[Slot(p)].previous_metrics # None
        /\ report[p].summary = <<ConsistentFraming, frame[Slot(p)].previous_metrics.session_count>>

(***************************************************************************)
(* The shape of a returned Report, checked under Spec.                     *)
(***************************************************************************)
FallbackShape(rep) ==
    /\ rep.id[1] = "fallback_"
    /\ rep.metrics = <<>>
    /\ rep.practice_sessions = 0
    /\ rep.total_practice_time = 0

\* The shape of a normal Report of call p, whose fetch for today got the
\* given response.
NormalShape(p, rep) ==
    /\ rep.id[1] = "report_"
    /\ DOMAIN rep.metrics = MetricKeys
    /\ rep.practice_sessions >= 1
    /\ rep.practice_sessions
           = Len(_get_daily_sessions(args[p].user_id, args[p].date, got[p].today))
    /\ rep.metrics["total_sessions"].current = <<rep.practice_sessions, 1>>
    /\ rep.total_practice_time = 15 * rep.practice_sessions

\* C12: every Report generate_daily_report returns has exactly one of two
\* shapes: fallback (id starting with "fallback_", no metrics, 0 sessions,
\* 0 minutes) or normal (id starting with "report_", exactly the five metric
\* keys, practice_sessions >= 1 equal to the number of sessions fetched for
\* today and to metrics["total_sessions"].current, total_practice_time
\* 15 times practice_sessions); a call that has ended has returned one, and
\* none mixes the two.
C12_TwoReportShapes ==
    \A p \in Procs :
        /\ Done(p) => report[p] # None
        /\ report[p] # None =>
               /\ FallbackShape(report[p]) \/ NormalShape(p, report[p])
               /\ ~(FallbackShape(report[p]) /\ NormalShape(p, report[p]))
               /\ report[p].id[1] = "fallback_" => FallbackShape(report[p])
               /\ report[p].id[1] = "report_" => NormalShape(p, report[p])

\* A normal Report for two sessions, 30 minutes, beside which the same
\* instance can return a fallback Report for an empty day.
C12_Witness ==
    \E p \in Procs :
        /\ Done(p)
        /\ NormalShape(p, report[p])
        /\ report[p].practice_sessions = 2
        /\ report[p].total_practice_time = 30
        /\ report[p].metrics["total_sessions"].current = <<2, 1>>

\* A fallback Report returned by the handler after today's sessions were
\* fetched: it still reports 0 sessions and no metrics.
C12_WitnessFallback ==
    \E p \in Procs :
        /\ Done(p)
        /\ Called(p, "except")
        /\ FallbackShape(report[p])
        /\ frame[Slot(p)].sessions # <<>>

====
